---------------------------- MODULE Spec2Model ----------------------------
(***************************************************************************)
(* The Daily Bugle content scheduler (src/src/index.js).                   *)
(*                                                                         *)
(* startTimer owns three closure variables (the active run's abort         *)
(* controller, the retry timer handle, the next-day timer handle).  A      *)
(* timer callback calls attemptGeneration, which aborts the controller it  *)
(* finds, starts generateAllSections (one request per configured section,  *)
(* fan-in with Promise.all, then the save loop and the news.json write)    *)
(* and, when the call settles, re-arms a timer.                            *)
(*                                                                         *)
(* One action is one macrotask of the event loop: a timer callback, the    *)
(* completion of one request, the completion of one file write.  The       *)
(* promise reactions a macrotask sets off run inside the same action.      *)
(***************************************************************************)
EXTENDS Integers, Sequences, FiniteSets

-----------------------------------------------------------------------------
(* Bounds of the model *)

\* number of runs attemptGeneration may start in one behaviour
MaxRuns == 2

\* number of configured sections (configData.sections.length)
NumSections == 2
\* a request's pathname has at most MaxDepth segments
MaxDepth == 3
\* getNext1AM is called on the days 0..MaxDay
MaxDay == 1
\* prompts have at most MaxLen characters
MaxLen == 2

-----------------------------------------------------------------------------
(* Program constants *)

RETRY_INTERVAL_MS == 10 * 60 * 1000

HOUR_MS == 60 * 60 * 1000

DAY_MS == 24 * HOUR_MS

\* the ids of the sections the service is configured with, in config order
AllSectionIds == <<"masthead", "weather", "sightings", "villains", "editorial">>

\* configData.sections
sections == [i \in 1..NumSections |-> [id |-> AllSectionIds[i]]]

\* instants (ms since local midnight of day 0) at which the clock is read
Times == {HOUR_MS - 1, HOUR_MS, 14 * HOUR_MS + HOUR_MS \div 2}

\* values of dateFolder (YYYY-MM-DD_HH-MM of the clock at fan-in)
Stamps == {"2024-01-15_01-00", "2024-01-15_01-10"}

-----------------------------------------------------------------------------
VARIABLES
    currentGenerationAbortController, \* 0 (null) or the run whose controller it is
    retryTimeoutId,                   \* 0 (null) or a timer id
    nextScheduleTimeoutId,            \* 0 (null) or a timer id
    timers,                           \* the timers armed in the event loop
    timerSeq,                         \* number of setTimeout calls so far
    runs,                             \* the attemptGeneration calls, in start order
    files,                            \* article files under public/sections
    index,                            \* items of public/news.json
    timerConfig,                      \* config.timerConfig (fixed-interval policy)
    call                              \* the last call of a function checked alone

vars == <<currentGenerationAbortController, retryTimeoutId, nextScheduleTimeoutId,
          timers, timerSeq, runs, files, index, timerConfig, call>>

\* the daily scheduler has no timerConfig
NoTimerConfig == [intervalMinutes |-> 0, runOnStartup |-> FALSE]

\* no function has been called alone
NoCall == [fn |-> "none"]

\* the closure state of startTimer together with the event loop's timers
Sched == [ctrl   |-> currentGenerationAbortController,
          retry  |-> retryTimeoutId,
          next   |-> nextScheduleTimeoutId,
          timers |-> timers,
          seq    |-> timerSeq]

SetSched(S) ==
    /\ currentGenerationAbortController' = S.ctrl
    /\ retryTimeoutId' = S.retry
    /\ nextScheduleTimeoutId' = S.next
    /\ timers' = S.timers
    /\ timerSeq' = S.seq

-----------------------------------------------------------------------------
(* Timers *)

clearTimeout(S, id) == [S EXCEPT !.timers = {t \in @ : t.id # id}]

\* the new timer's id is the resulting seq
setTimeout(S, kind, ms) ==
    [S EXCEPT !.seq = @ + 1,
              !.timers = @ \cup {[id |-> S.seq + 1, kind |-> kind, ms |-> ms]}]

\* getNext1AM with `now > next1AM` on line 235
getNext1AMStrict(now) ==
    LET next1AM == (now \div DAY_MS) * DAY_MS + HOUR_MS
    IN  IF now > next1AM THEN next1AM + DAY_MS ELSE next1AM

\* getNext1AM (lines 229-240), times in ms since a local midnight
getNext1AM(now) ==
    LET next1AM == (now \div DAY_MS) * DAY_MS + HOUR_MS
    IN  IF now >= next1AM THEN next1AM + DAY_MS ELSE next1AM

\* scheduleNextDay without lines 326-328: the timer armed before stays armed
scheduleNextDayNoClear(S, now) ==
    LET S2 == setTimeout(S, "next", getNext1AM(now) - now)
    IN  [S2 EXCEPT !.next = S2.seq]

scheduleNextDay(S, now) ==
    LET S1 == IF S.next # 0 THEN clearTimeout(S, S.next) ELSE S
        msUntil1AM == getNext1AM(now) - now
        S2 == setTimeout(S1, "next", msUntil1AM)
    IN  [S2 EXCEPT !.next = S2.seq]

\* FireTimer with a repeating timer (setInterval in place of setTimeout)
FireTimerRepeats(S, t) == S

\* a timer armed by setTimeout fires once: it leaves the event loop when its
\* callback is called
FireTimer(S, t) == [S EXCEPT !.timers = @ \ {t}]

-----------------------------------------------------------------------------
(* attemptGeneration: what follows the await of generateAllSections *)

\* OnResolved without lines 287-290: the retry timer stays armed
OnResolvedKeepsRetry(S, now) == [scheduleNextDay(S, now) EXCEPT !.ctrl = 0]

\* OnResolved without line 293: no next-day timer is armed
OnResolvedNoSchedule(S, now) ==
    IF S.retry # 0
    THEN [clearTimeout(S, S.retry) EXCEPT !.retry = 0, !.ctrl = 0]
    ELSE [S EXCEPT !.ctrl = 0]

\* lines 286-294: the call resolved
OnResolved(S, now) ==
    LET S1 == IF S.retry # 0
              THEN [clearTimeout(S, S.retry) EXCEPT !.retry = 0]
              ELSE S
        S2 == scheduleNextDay(S1, now)
    IN  [S2 EXCEPT !.ctrl = 0]

\* OnRejected without lines 307-309: the retry timer armed before stays armed
OnRejectedKeepsOldRetry(S, aborted) ==
    IF aborted
    THEN S
    ELSE LET S2 == setTimeout(S, "retry", RETRY_INTERVAL_MS)
         IN  [S2 EXCEPT !.retry = S2.seq, !.ctrl = 0]

\* OnRejected without lines 297-300: a cancellation is handled as a failure
OnRejectedIgnoresAbort(S, aborted) ==
    LET S1 == IF S.retry # 0 THEN clearTimeout(S, S.retry) ELSE S
        S2 == setTimeout(S1, "retry", RETRY_INTERVAL_MS)
    IN  [S2 EXCEPT !.retry = S2.seq, !.ctrl = 0]

\* OnRejected without line 317: the controller of the failed run stays
OnRejectedKeepsController(S, aborted) ==
    IF aborted
    THEN S
    ELSE LET S1 == IF S.retry # 0 THEN clearTimeout(S, S.retry) ELSE S
             S2 == setTimeout(S1, "retry", RETRY_INTERVAL_MS)
         IN  [S2 EXCEPT !.retry = S2.seq]

\* OnRejected without lines 312-315: a failure arms no retry
OnRejectedNoRetry(S, aborted) ==
    IF aborted
    THEN S
    ELSE LET S1 == IF S.retry # 0 THEN clearTimeout(S, S.retry) ELSE S
         IN  [S1 EXCEPT !.retry = 0, !.ctrl = 0]

\* OnRejected with a delay that grows with the number of timers armed so far
OnRejectedBackoff(S, aborted) ==
    IF aborted
    THEN S
    ELSE LET S1 == IF S.retry # 0 THEN clearTimeout(S, S.retry) ELSE S
             S2 == setTimeout(S1, "retry", RETRY_INTERVAL_MS * S.seq)
         IN  [S2 EXCEPT !.retry = S2.seq, !.ctrl = 0]

\* OnRejected with scheduleNextDay() called next to the retry
OnRejectedAlsoSchedules(S, aborted) ==
    IF aborted
    THEN S
    ELSE LET S1 == IF S.retry # 0 THEN clearTimeout(S, S.retry) ELSE S
             S2 == setTimeout(S1, "retry", RETRY_INTERVAL_MS)
             S3 == setTimeout(S2, "next", DAY_MS)
         IN  [S3 EXCEPT !.retry = S2.seq, !.next = S3.seq, !.ctrl = 0]

\* lines 295-318: the call rejected; aborted is signal.aborted of this run
OnRejected(S, aborted) ==
    IF aborted
    THEN S
    ELSE LET S1 == IF S.retry # 0 THEN clearTimeout(S, S.retry) ELSE S
             S2 == setTimeout(S1, "retry", RETRY_INTERVAL_MS)
         IN  [S2 EXCEPT !.retry = S2.seq, !.ctrl = 0]

\* the outcome the catch block assigns to a rejected run
RejectedPhase(aborted) == IF aborted THEN "cancelled" ELSE "failed"

InFlight(run) == run.phase \in {"fetch", "save", "index"}

-----------------------------------------------------------------------------
(* generateAllSections and generateSection *)

\* generateSection taking the id from the first configured section
generateSectionFirstId(section) == [id |-> AllSectionIds[1]]

\* generateSection: the GenerationResult of a section whose request succeeded
generateSection(section) == [id |-> section.id]

\* results in the reverse of the order of configData.sections
resultsReversed ==
    [i \in 1..NumSections |-> generateSection(sections[NumSections + 1 - i])]

\* Promise.all keeps the order of configData.sections
results == [i \in 1..NumSections |-> generateSection(sections[i])]

\* path.join(baseDir, '../public/sections', result.id, `${dateFolder}.html`)
filepath(id, dateFolder) == <<"public", "sections", id, <<dateFolder, "html">>>>

\* url with the time formatted again for every entry
urlOwnStamp(id, dateFolder) ==
    <<".", "sections", id, <<"2024-01-15_01-20", "html">>>>

\* `./sections/${result.id}/${filename}`
url(id, dateFolder) == <<".", "sections", id, <<dateFolder, "html">>>>

\* Promise.race in place of Promise.all: the first result ends the await
PromiseAny(req) == \E j \in 1..NumSections : req[j] = "ok"

\* Promise.all (lines 162-164) resolves when every request has resolved
PromiseAll(req) == \A j \in 1..NumSections : req[j] = "ok"

\* fs.writeFile appending to news.json instead of replacing it
WriteIndexAppends(old, newsItems) == old \o newsItems

\* fs.writeFile(newsJsonPath, ...) (lines 216-219) replaces the file's content
WriteIndex(old, newsItems) == newsItems

\* a call of attemptGeneration that has reached generateAllSections:
\*   phase      where the call is: awaiting Promise.all ("fetch"), in the save
\*              loop ("save"), awaiting the news.json write ("index"), or how
\*              attemptGeneration ended ("succeeded", "failed", "cancelled")
\*   aborted    signal.aborted of the run's controller
\*   req        the request of each section: "pending", "ok", "failed",
\*              "aborted"; "settled" once nothing awaits its outcome
\*   artWrites, idxWrites   the fs.writeFile calls the run has completed
\*   last       the section whose request was the last to resolve (0: none yet)
\*   prev       the controller attemptGeneration found at entry (0: none)
\*   prevAborted  whether that controller was aborted when the run's
\*              requests were issued
NewRun(prev, prevAborted) ==
    [phase       |-> "fetch",
     aborted     |-> FALSE,
     req         |-> [i \in 1..NumSections |-> "pending"],
     dateFolder  |-> "",
     newsItems   |-> <<>>,
     artWrites   |-> 0,
     idxWrites   |-> 0,
     last        |-> 0,
     prev        |-> prev,
     prevAborted |-> prevAborted]

\* attemptGeneration returns with the given outcome: the locals of the call
\* (results, dateFolder, newsItems, the signal's listeners) are dropped; the
\* requests still outstanding stay outstanding
Ended(run, outcome) ==
    [phase       |-> outcome,
     aborted     |-> run.aborted,
     req         |-> [i \in 1..NumSections |->
                        IF run.req[i] = "pending" THEN "pending" ELSE "settled"],
     dateFolder  |-> "",
     newsItems   |-> <<>>,
     artWrites   |-> run.artWrites,
     idxWrites   |-> run.idxWrites,
     last        |-> 0,
     prev        |-> 0,
     prevAborted |-> TRUE]

\* abort() with the signal passed to the request of the first section only
abortFirstOnly(rs, r) ==
    [rs EXCEPT ![r].aborted = TRUE,
               ![r].req = [i \in 1..NumSections |->
                              IF @[i] = "pending" /\ i = 1 THEN "aborted" ELSE @[i]]]

\* AbortController.abort(): the signal is set and the requests that listen
\* to it reject
abort(rs, r) ==
    [rs EXCEPT ![r].aborted = TRUE,
               ![r].req = [i \in 1..NumSections |->
                              IF @[i] = "pending" THEN "aborted" ELSE @[i]]]

\* AbortPrevious without the abort() call of line 275
AbortPreviousSkipped(rs, old) == rs

\* lines 272-276
AbortPrevious(rs, old) == IF old # 0 THEN abort(rs, old) ELSE rs

\* lines 278-284 up to the first await: the new controller, and the requests
\* of all sections issued by the map inside Promise.all
IssueRequests(rs, old) ==
    Append(rs, NewRun(old, (old # 0) => rs[old].aborted))

\* attemptGeneration, entered with closure state S: the synchronous part,
\* then the rejection of the aborted run's Promise.all (a promise reaction of
\* the same macrotask), which its catch block handles
AttemptGeneration(S) ==
    LET old  == S.ctrl
        rs1  == IssueRequests(AbortPrevious(runs, old), old)
        S1   == [S EXCEPT !.ctrl = Len(rs1)]
        rejects == old # 0 /\ runs[old].phase = "fetch"
    IN  /\ runs' = IF rejects
                   THEN [rs1 EXCEPT ![old] = Ended(@, RejectedPhase(@.aborted))]
                   ELSE rs1
        /\ SetSched(IF rejects THEN OnRejected(S1, rs1[old].aborted) ELSE S1)
        /\ UNCHANGED <<files, index>>

-----------------------------------------------------------------------------
(* Actions *)

\* startTimer with a call of attemptGeneration() next to scheduleNextDay()
InitRunsOnStartup ==
    /\ \E now \in Times :
         LET S == scheduleNextDay(
                    [ctrl |-> 1, retry |-> 0, next |-> 0, timers |-> {}, seq |-> 0],
                    now)
         IN  /\ currentGenerationAbortController = S.ctrl
             /\ retryTimeoutId = S.retry
             /\ nextScheduleTimeoutId = S.next
             /\ timers = S.timers
             /\ timerSeq = S.seq
    /\ runs = <<NewRun(0, TRUE)>>
    /\ files = {}
    /\ index = <<>>
    /\ timerConfig = NoTimerConfig
    /\ call = NoCall

\* startTimer: the three handles are null and scheduleNextDay() arms the
\* first timer
Init ==
    /\ \E now \in Times :
         LET S == scheduleNextDay(
                    [ctrl |-> 0, retry |-> 0, next |-> 0, timers |-> {}, seq |-> 0],
                    now)
         IN  /\ currentGenerationAbortController = S.ctrl
             /\ retryTimeoutId = S.retry
             /\ nextScheduleTimeoutId = S.next
             /\ timers = S.timers
             /\ timerSeq = S.seq
    /\ runs = <<>>
    /\ files = {}
    /\ index = <<>>
    /\ timerConfig = NoTimerConfig
    /\ call = NoCall

\* the callback of the retry timer (lines 312-315)
RetryTimerFires ==
    /\ UNCHANGED <<timerConfig, call>>
    /\ \E t \in timers :
        /\ t.kind = "retry"
        /\ Len(runs) < MaxRuns
        /\ AttemptGeneration([FireTimer(Sched, t) EXCEPT !.retry = 0])

\* the callback of the next-day timer (lines 336-339)
NextTimerFires ==
    /\ UNCHANGED <<timerConfig, call>>
    /\ \E t \in timers :
        /\ t.kind = "next"
        /\ Len(runs) < MaxRuns
        /\ AttemptGeneration([FireTimer(Sched, t) EXCEPT !.next = 0])

\* attemptGeneration entered by a trigger other than the closure's two timers
Trigger ==
    /\ UNCHANGED <<timerConfig, call>>
    /\ Len(runs) < MaxRuns
    /\ AttemptGeneration(Sched)

\* callOllama of section i of run r returns data.response
RequestSucceeds ==
    /\ UNCHANGED <<timerConfig, call>>
    /\ \E r \in DOMAIN runs, i \in 1..NumSections, stamp \in Stamps :
        /\ runs[r].req[i] = "pending"
        /\ LET req1  == [runs[r].req EXCEPT ![i] = "ok"]
               fanIn == runs[r].phase = "fetch" /\ PromiseAll(req1)
           IN  runs' = IF InFlight(runs[r])
                       THEN [runs EXCEPT ![r].req = req1,
                                         ![r].phase = IF fanIn THEN "save" ELSE @,
                                         ![r].dateFolder = IF fanIn THEN stamp ELSE @,
                                         ![r].last = IF fanIn THEN i ELSE @]
                       ELSE [runs EXCEPT ![r].req[i] = "settled"]
        /\ UNCHANGED <<currentGenerationAbortController, retryTimeoutId,
                       nextScheduleTimeoutId, timers, timerSeq, files, index>>

\* RequestFails with callOllama catching the error and returning a placeholder
\* text: the failed request counts as a result of the batch
RequestFailsSwallowed ==
    /\ UNCHANGED <<timerConfig, call>>
    /\ \E r \in DOMAIN runs, i \in 1..NumSections, stamp \in Stamps :
        /\ runs[r].req[i] = "pending"
        /\ LET req1  == [runs[r].req EXCEPT ![i] = "failed"]
               fanIn == /\ runs[r].phase = "fetch"
                        /\ \A j \in 1..NumSections : req1[j] # "pending"
           IN  runs' = IF InFlight(runs[r])
                       THEN [runs EXCEPT ![r].req = req1,
                                         ![r].phase = IF fanIn THEN "save" ELSE @,
                                         ![r].dateFolder = IF fanIn THEN stamp ELSE @,
                                         ![r].last = IF fanIn THEN i ELSE @]
                       ELSE [runs EXCEPT ![r].req[i] = "settled"]
        /\ UNCHANGED <<currentGenerationAbortController, retryTimeoutId,
                       nextScheduleTimeoutId, timers, timerSeq, files, index>>

\* callOllama of section i of run r throws (transport error or !response.ok)
RequestFails ==
    /\ UNCHANGED <<timerConfig, call>>
    /\ \E r \in DOMAIN runs, i \in 1..NumSections :
        /\ runs[r].req[i] = "pending"
        /\ IF runs[r].phase = "fetch"
           THEN /\ runs' = [runs EXCEPT ![r] =
                             Ended([@ EXCEPT !.req[i] = "failed"],
                                   RejectedPhase(@.aborted))]
                /\ SetSched(OnRejected(Sched, runs[r].aborted))
           ELSE /\ runs' = [runs EXCEPT ![r].req[i] =
                             IF InFlight(runs[r]) THEN "failed" ELSE "settled"]
                /\ UNCHANGED <<currentGenerationAbortController, retryTimeoutId,
                               nextScheduleTimeoutId, timers, timerSeq>>
        /\ UNCHANGED <<files, index>>

\* one turn of the save loop (lines 175-212): mkdir, writeFile, push
ArticleSaved ==
    /\ UNCHANGED <<timerConfig, call>>
    /\ \E r \in DOMAIN runs :
        /\ runs[r].phase = "save"
        /\ LET k      == Len(runs[r].newsItems) + 1
               result == results[k]
               folder == runs[r].dateFolder
           IN  /\ files' = files \cup {filepath(result.id, folder)}
               /\ runs' = [runs EXCEPT
                    ![r].newsItems = Append(@, [id  |-> result.id,
                                                url |-> url(result.id, folder)]),
                    ![r].artWrites = @ + 1,
                    ![r].phase = IF k = NumSections THEN "index" ELSE "save"]
        /\ UNCHANGED <<currentGenerationAbortController, retryTimeoutId,
                       nextScheduleTimeoutId, timers, timerSeq, index>>

\* ArticleSaveFails with a catch that writes news.json from the entries
\* pushed so far
ArticleSaveFailsWritesIndex ==
    /\ UNCHANGED <<timerConfig, call>>
    /\ \E r \in DOMAIN runs :
        /\ runs[r].phase = "save"
        /\ index' = WriteIndex(index, runs[r].newsItems)
        /\ runs' = [runs EXCEPT ![r] = Ended(@, RejectedPhase(@.aborted))]
        /\ SetSched(OnRejected(Sched, runs[r].aborted))
        /\ UNCHANGED files

\* ArticleSaveFails with a catch that removes the articles the run has written
ArticleSaveFailsRollsBack ==
    /\ UNCHANGED <<timerConfig, call>>
    /\ \E r \in DOMAIN runs :
        /\ runs[r].phase = "save"
        /\ files' = files \ {filepath(runs[r].newsItems[k].id, runs[r].dateFolder) :
                                k \in DOMAIN runs[r].newsItems}
        /\ runs' = [runs EXCEPT ![r] = Ended(@, RejectedPhase(@.aborted))]
        /\ SetSched(OnRejected(Sched, runs[r].aborted))
        /\ UNCHANGED index

\* mkdir or writeFile of the save loop throws
ArticleSaveFails ==
    /\ UNCHANGED <<timerConfig, call>>
    /\ \E r \in DOMAIN runs :
        /\ runs[r].phase = "save"
        /\ runs' = [runs EXCEPT ![r] = Ended(@, RejectedPhase(@.aborted))]
        /\ SetSched(OnRejected(Sched, runs[r].aborted))
        /\ UNCHANGED <<files, index>>

\* the news.json write (lines 215-219) completes and generateAllSections
\* resolves
IndexWritten ==
    /\ UNCHANGED <<timerConfig, call>>
    /\ \E r \in DOMAIN runs, now \in Times :
        /\ runs[r].phase = "index"
        /\ index' = WriteIndex(index, runs[r].newsItems)
        /\ runs' = [runs EXCEPT ![r] =
                     Ended([@ EXCEPT !.idxWrites = @ + 1], "succeeded")]
        /\ SetSched(OnResolved(Sched, now))
        /\ UNCHANGED files

\* the news.json write throws
IndexWriteFails ==
    /\ UNCHANGED <<timerConfig, call>>
    /\ \E r \in DOMAIN runs :
        /\ runs[r].phase = "index"
        /\ runs' = [runs EXCEPT ![r] = Ended(@, RejectedPhase(@.aborted))]
        /\ SetSched(OnRejected(Sched, runs[r].aborted))
        /\ UNCHANGED <<files, index>>

\* the scheduler as the program wires it: only its own timers start runs
Next ==
    \/ RetryTimerFires
    \/ NextTimerFires
    \/ RequestSucceeds
    \/ RequestFails
    \/ ArticleSaved
    \/ ArticleSaveFails
    \/ IndexWritten
    \/ IndexWriteFails

Spec == Init /\ [][Next]_vars

\* the scheduler with triggers that arrive at any time
\* the scheduler with timers that fire and requests and writes that settle
Fairness ==
    /\ WF_vars(RetryTimerFires)
    /\ WF_vars(NextTimerFires)
    /\ WF_vars(RequestSucceeds \/ RequestFails)
    /\ WF_vars(ArticleSaved \/ ArticleSaveFails)
    /\ WF_vars(IndexWritten \/ IndexWriteFails)

SpecFair == Spec /\ Fairness

NextTrigger == Next \/ Trigger

SpecTrigger == Init /\ [][NextTrigger]_vars

-----------------------------------------------------------------------------
(* Vocabulary of the properties *)

\* the attemptGeneration calls whose generateAllSections has not settled
Running == {r \in DOMAIN runs : InFlight(runs[r])}

RetryTimers == {t \in timers : t.kind = "retry"}

NextTimers == {t \in timers : t.kind = "next"}

\* run r ends in this step with the given outcome
EndsNow(r, outcome) == InFlight(runs[r]) /\ runs'[r].phase = outcome

\* attemptGeneration is entered in this step
StartsNow == Len(runs') > Len(runs)

-----------------------------------------------------------------------------
(* C1-C10 *)

C2_AbortBeforeRequests ==
    \A r \in DOMAIN runs : runs[r].prev # 0 => runs[r].prevAborted

\* a run started while another run's controller was active
C2_Witness ==
    \E r \in DOMAIN runs :
        /\ runs[r].prev # 0
        /\ runs[runs[r].prev].aborted
        /\ \A i \in 1..NumSections : runs[r].req[i] = "pending"

\* C3: a run whose signal has been aborted completes no file write afterwards,
\* neither an article nor news.json.
C3_NoWriteAfterAbort ==
    [][\A r \in DOMAIN runs :
          runs[r].aborted =>
              /\ runs'[r].artWrites = runs[r].artWrites
              /\ runs'[r].idxWrites = runs[r].idxWrites]_vars

\* C4: when a run fails (its signal not aborted), the retry timer armed before
\* is cleared, exactly one retry timer is armed, with delay RETRY_INTERVAL_MS,
\* and the next-day timer is not armed.
C4_FailureArmsOneRetry ==
    [][\A r \in DOMAIN runs :
          EndsNow(r, "failed") =>
              /\ Cardinality(RetryTimers') = 1
              /\ RetryTimers' \cap timers = {}
              /\ \A t \in RetryTimers' :
                    t.ms = RETRY_INTERVAL_MS /\ retryTimeoutId' = t.id
              /\ NextTimers' = NextTimers
              /\ nextScheduleTimeoutId' = nextScheduleTimeoutId]_vars

\* two runs have failed and one retry timer is armed
C4_Witness ==
    /\ Len(runs) = 2
    /\ \A r \in DOMAIN runs : runs[r].phase = "failed"
    /\ Cardinality(RetryTimers) = 1

\* C5: when a run succeeds, afterwards no retry timer is pending and exactly
\* one next-day timer is armed.
C5_SuccessArmsNextOnly ==
    [][\A r \in DOMAIN runs :
          EndsNow(r, "succeeded") =>
              /\ retryTimeoutId' = 0
              /\ RetryTimers' = {}
              /\ Cardinality(NextTimers') = 1
              /\ NextTimers' \cap timers = {}
              /\ \A t \in NextTimers' : nextScheduleTimeoutId' = t.id]_vars

\* a run has succeeded after a failed one
C5_Witness ==
    /\ Len(runs) = 2
    /\ runs[1].phase = "failed"
    /\ runs[2].phase = "succeeded"
    /\ timers = NextTimers

\* C6: when a run ends cancelled, its catch block arms and clears no timer:
\* the handles and the timers are as the trigger that entered
\* attemptGeneration, or the failed write, found them (a timer callback having
\* removed the timer that fired and reset its handle).
C6_CancellationLeavesTimers ==
    [][(\E r \in DOMAIN runs : EndsNow(r, "cancelled")) =>
          /\ (Trigger \/ ArticleSaveFails \/ IndexWriteFails) =>
                UNCHANGED <<timers, retryTimeoutId, nextScheduleTimeoutId>>
          /\ RetryTimerFires =>
                /\ \E t \in RetryTimers : timers' = timers \ {t}
                /\ retryTimeoutId' = 0
                /\ nextScheduleTimeoutId' = nextScheduleTimeoutId
          /\ NextTimerFires =>
                /\ \E t \in NextTimers : timers' = timers \ {t}
                /\ nextScheduleTimeoutId' = 0
                /\ retryTimeoutId' = retryTimeoutId]_vars

\* a run has ended cancelled
C6_Witness == \E r \in DOMAIN runs : runs[r].phase = "cancelled"

\* C7: whenever no run is in flight, exactly one of the retry timer and the
\* next-day timer is armed.
C7_IdleHasOneTimer ==
    Running = {} =>
        /\ Cardinality(timers) = 1
        /\ (retryTimeoutId # 0) # (nextScheduleTimeoutId # 0)
        /\ \A t \in timers : t.id \in {retryTimeoutId, nextScheduleTimeoutId}

\* idle with the retry timer armed
C7_Witness == Running = {} /\ retryTimeoutId # 0 /\ RetryTimers # {}

C9_TimersTracked ==
    /\ Cardinality(RetryTimers) <= 1
    /\ Cardinality(NextTimers) <= 1
    /\ \A t \in RetryTimers : retryTimeoutId = t.id
    /\ \A t \in NextTimers : nextScheduleTimeoutId = t.id

\* a retry timer and a next-day timer are armed together, after earlier
\* timers were cleared or fired
C9_Witness ==
    /\ RetryTimers # {}
    /\ NextTimers # {}
    /\ timerSeq > 2

\* C10: a batch that completes has written one article file per configured
\* section, N in all, and then news.json once, with exactly one entry per
\* section carrying that section's id.
C10_SuccessfulBatchWritesAll ==
    [][\A r \in DOMAIN runs :
          EndsNow(r, "succeeded") =>
              /\ runs'[r].artWrites = NumSections
              /\ runs'[r].idxWrites = 1
              /\ \A i \in 1..NumSections :
                    filepath(sections[i].id, runs[r].dateFolder) \in files
              /\ Len(index') = NumSections
              /\ \A i \in 1..NumSections :
                    Cardinality({k \in DOMAIN index' :
                                    index'[k].id = sections[i].id}) = 1]_vars

\* a batch has completed and news.json holds its entries
C10_Witness ==
    /\ \E r \in DOMAIN runs : runs[r].phase = "succeeded"
    /\ Len(index) = NumSections

-----------------------------------------------------------------------------
(* C11-C14: the batch and the disk *)

\* the runs in their file-writing phase
Writers == {r \in DOMAIN runs : runs[r].phase \in {"save", "index"}}

\* the request of section i of run r ends in this step without a result
RequestLostNow(r, i) ==
    /\ InFlight(runs[r])
    /\ runs[r].req[i] = "pending"
    /\ ~(runs'[r].req[i] \in {"pending", "ok"} /\ InFlight(runs'[r]))

\* C11: a batch in which the generation of a section fails ends there and has
\* written, and will write, no news.json.
C11_SectionFailureNoIndex ==
    /\ [][\A r \in DOMAIN runs : \A i \in 1..NumSections :
             RequestLostNow(r, i) =>
                 /\ ~InFlight(runs'[r])
                 /\ runs'[r].phase # "succeeded"
                 /\ runs'[r].idxWrites = 0
                 /\ index' = index]_vars
    /\ [](\A r \in DOMAIN runs :
             runs[r].phase \in {"failed", "cancelled"} => runs[r].idxWrites = 0)

\* a batch has failed in its fetch phase while the other request is still
\* outstanding
C11_Witness ==
    \E r \in DOMAIN runs :
        /\ runs[r].phase = "failed"
        /\ runs[r].artWrites = 0
        /\ \E i \in 1..NumSections : runs[r].req[i] = "pending"

\* C12: the step in which a batch fails changes neither news.json nor the
\* article files; news.json changes only when a batch completes, and a step
\* of a batch touches no article file but the one under its own dateFolder.
C12_FailedBatchKeepsDisk ==
    /\ [][\A r \in DOMAIN runs :
             EndsNow(r, "failed") =>
                 /\ index' = index
                 /\ files' = files
                 /\ runs'[r].idxWrites = 0]_vars
    /\ [][index' # index => \E r \in DOMAIN runs : EndsNow(r, "succeeded")]_vars
    /\ [][\/ files' = files
          \/ \E r \in Writers : \E i \in 1..NumSections :
                files' = files \cup {filepath(sections[i].id, runs[r].dateFolder)}]_vars

\* a batch has failed after a completed one, whose entries news.json holds
C12_Witness ==
    /\ Len(runs) = 2
    /\ runs[1].phase = "succeeded"
    /\ runs[2].phase = "failed"
    /\ Len(index) = NumSections

C14_IndexOverwrittenFilesGrow ==
    /\ [][\A r \in DOMAIN runs :
             EndsNow(r, "succeeded") =>
                 /\ index' = runs[r].newsItems
                 /\ Len(index') = NumSections]_vars
    /\ [][index' # index => \E r \in DOMAIN runs : EndsNow(r, "succeeded")]_vars
    /\ [][files \subseteq files']_vars

\* two batches with different dateFolders have completed: news.json holds
\* the entries of one, the disk the articles of both
C14_Witness ==
    /\ Len(runs) = 2
    /\ \A r \in DOMAIN runs : runs[r].phase = "succeeded"
    /\ Len(index) = NumSections
    /\ Cardinality(files) = 2 * NumSections

-----------------------------------------------------------------------------
(* The functions of the module called alone *)

\* the times of day getNext1AM is called at, in ms after midnight
Offsets == {0, 1, HOUR_MS - 1, HOUR_MS, HOUR_MS + 1, 12 * HOUR_MS,
            14 * HOUR_MS + HOUR_MS \div 2, DAY_MS - 1}

\* the characters of a prompt
Chars == {"a", "b", " "}

\* the strings of at most MaxLen characters
Strings == UNION {[1..n -> Chars] : n \in 0..MaxLen}

\* configData as generateSection reads it: systemPrompt may be missing
ConfigDatas ==
    {[hasSystemPrompt |-> FALSE, systemPrompt |-> <<>>]} \cup
    {[hasSystemPrompt |-> TRUE, systemPrompt |-> g] : g \in Strings}

\* a section as generateSection reads its systemPrompt
SectionPrompts == {[systemPrompt |-> p] : p \in Strings}

\* configData.systemPrompt as the condition of ?: : undefined and "" are falsy
Truthy(configData) ==
    configData.hasSystemPrompt /\ Len(configData.systemPrompt) > 0

\* generateSection with the template applied whenever the key is present
fullSystemPromptAlways(section, configData) ==
    IF configData.hasSystemPrompt
    THEN configData.systemPrompt \o <<" ">> \o section.systemPrompt
    ELSE section.systemPrompt

\* lines 141-143 of generateSection
fullSystemPrompt(section, configData) ==
    IF Truthy(configData)
    THEN configData.systemPrompt \o <<" ">> \o section.systemPrompt
    ELSE section.systemPrompt

\* the body callOllama posts (lines 115-123): the prompts are passed through
RequestBody(systemPrompt, userPrompt) ==
    [prompt |-> userPrompt, system |-> systemPrompt]

\* getNext1AM() is called at some time
CallGetNext1AM ==
    /\ call = NoCall
    /\ \E day \in 0..MaxDay, off \in Offsets :
         LET now == day * DAY_MS + off
         IN  call' = [fn |-> "getNext1AM", arg |-> now, ret |-> getNext1AM(now)]
    /\ UNCHANGED <<currentGenerationAbortController, retryTimeoutId,
                   nextScheduleTimeoutId, timers, timerSeq, runs, files,
                   index, timerConfig>>

\* generateSection(section, configData) is called up to its fetch
CallGenerateSection ==
    /\ call = NoCall
    /\ \E section \in SectionPrompts, configData \in ConfigDatas :
         call' = [fn  |-> "generateSection",
                  arg |-> [section |-> section, configData |-> configData],
                  ret |-> RequestBody(fullSystemPrompt(section, configData),
                                      <<>>)]
    /\ UNCHANGED <<currentGenerationAbortController, retryTimeoutId,
                   nextScheduleTimeoutId, timers, timerSeq, runs, files,
                   index, timerConfig>>

\* what one call of fetch can do: reject (no connection, or the signal was
\* aborted), or resolve with a response
FetchResults ==
    {[kind |-> "reject", status |-> 0, statusText |-> "", body |-> ""]} \cup
    {[kind |-> "response", status |-> st[1], statusText |-> st[2], body |-> b] :
        st \in {<<200, "OK">>, <<299, "">>, <<300, "Multiple Choices">>,
                 <<404, "Not Found">>, <<500, "Internal Server Error">>},
        b \in {"Article text", "", "not JSON"}}

\* Response.ok
ok(response) == response.status >= 200 /\ response.status <= 299

\* callOllama with a second attempt after a non-ok response
callOllamaRetries(fetchResults) ==
    LET first == fetchResults[1]
        response == IF first.kind = "response" /\ ~ok(first)
                    THEN fetchResults[2] ELSE first
        fetches  == IF first.kind = "response" /\ ~ok(first) THEN 2 ELSE 1
    IN  IF response.kind = "reject"
        THEN [fetches |-> fetches, outcome |-> "throws", error |-> <<"fetch">>,
              value |-> ""]
        ELSE IF ~ok(response)
        THEN [fetches |-> fetches, outcome |-> "throws",
              error |-> <<"Ollama API error: ", response.status, " ",
                          response.statusText>>,
              value |-> ""]
        ELSE IF response.body = "not JSON"
        THEN [fetches |-> fetches, outcome |-> "throws", error |-> <<"json">>,
              value |-> ""]
        ELSE [fetches |-> fetches, outcome |-> "returns", error |-> <<>>,
              value |-> response.body]

\* callOllama (lines 107-133); fetchResults[k] is what the k-th call of
\* fetch would do.  A rejection of fetch and of response.json() is not
\* caught; data.response is returned as it is
callOllama(fetchResults) ==
    LET response == fetchResults[1]
    IN  IF response.kind = "reject"
        THEN [fetches |-> 1, outcome |-> "throws", error |-> <<"fetch">>,
              value |-> ""]
        ELSE IF ~ok(response)
        THEN [fetches |-> 1, outcome |-> "throws",
              error |-> <<"Ollama API error: ", response.status, " ",
                          response.statusText>>,
              value |-> ""]
        ELSE IF response.body = "not JSON"
        THEN [fetches |-> 1, outcome |-> "throws", error |-> <<"json">>,
              value |-> ""]
        ELSE [fetches |-> 1, outcome |-> "returns", error |-> <<>>,
              value |-> response.body]

\* callOllama(...) is called
CallCallOllama ==
    /\ call = NoCall
    /\ \E first \in FetchResults, second \in FetchResults :
         call' = [fn  |-> "callOllama",
                  arg |-> <<first, second>>,
                  ret |-> callOllama(<<first, second>>)]
    /\ UNCHANGED <<currentGenerationAbortController, retryTimeoutId,
                   nextScheduleTimeoutId, timers, timerSeq, runs, files,
                   index, timerConfig>>

(* The static server.  A string is a sequence of tokens, none of which is a
   prefix of another, so that String.startsWith is the prefix order of
   sequences; a path is a sequence of segments, a segment a sequence of
   tokens. *)

\* const mimeTypes = {...}
mimeTypes ==
    [ext \in {".html", ".js", ".css", ".json", ".png", ".jpg", ".gif", ".svg",
              ".ico"} |->
        CASE ext = ".html" -> "text/html"
          [] ext = ".js"   -> "text/javascript"
          [] ext = ".css"  -> "text/css"
          [] ext = ".json" -> "application/json"
          [] ext = ".png"  -> "image/png"
          [] ext = ".jpg"  -> "image/jpg"
          [] ext = ".gif"  -> "image/gif"
          [] ext = ".svg"  -> "image/svg+xml"
          [] ext = ".ico"  -> "image/x-icon"]

\* the tokens that are a dot and a suffix
ExtTokens == DOMAIN mimeTypes \cup {".txt", ".unknown"}

\* path.join(baseDir, '../public'), with baseDir = /app/src
publicDir == << <<"app">>, <<"public">> >>

\* the segments a request's pathname is made of
Segments ==
    { <<"..">>, <<"public">>, <<"public", "-old">>, <<"sections">>,
      <<"index", ".html">>, <<"news", ".json">>, <<"secret", ".txt">> }

\* the pathnames of req.url: "/" is the empty sequence of segments
Pathnames == UNION {[1..n -> Segments] : n \in 0..MaxDepth}

\* the files of the machine that fs.readFile can read, in two states of the
\* public directory
Disks ==
    LET outside == { << <<"app">>, <<"secret", ".txt">> >>,
                     << <<"app">>, <<"public", "-old">>, <<"secret", ".txt">> >>,
                     << <<"secret", ".txt">> >> }
        inside  == { publicDir \o << <<"news", ".json">> >>,
                     publicDir \o << <<"sections">>, <<"index", ".html">> >>,
                     publicDir \o << <<"secret", ".txt">> >> }
    IN  { outside \cup inside,
          outside \cup inside \cup {publicDir \o << <<"index", ".html">> >>} }

\* the normalisation of path.join and path.resolve: ".." drops the segment
\* before it and stops at the root
RECURSIVE normalize(_)
normalize(segs) ==
    IF segs = <<>> THEN <<>>
    ELSE LET front == normalize(SubSeq(segs, 1, Len(segs) - 1))
             last  == segs[Len(segs)]
         IN  IF last = <<"..">>
             THEN IF front = <<>> THEN <<>> ELSE SubSeq(front, 1, Len(front) - 1)
             ELSE Append(front, last)

\* an absolute path as a string: "/" alone for the root, else every segment
\* behind a "/"
RECURSIVE pathString(_)
pathString(segs) ==
    IF segs = <<>> THEN <<"/">>
    ELSE IF Len(segs) = 1 THEN <<"/">> \o segs[1]
    ELSE pathString(SubSeq(segs, 1, Len(segs) - 1)) \o <<"/">> \o segs[Len(segs)]

\* String.prototype.startsWith
startsWith(str, prefix) ==
    Len(str) >= Len(prefix) /\ SubSeq(str, 1, Len(prefix)) = prefix

\* path.extname: the suffix of the last segment from its last dot, "" if it
\* has none or begins with it
extname(filePath) ==
    IF filePath = <<>> THEN ""
    ELSE LET base == filePath[Len(filePath)]
         IN  IF Len(base) > 1 /\ base[Len(base)] \in ExtTokens
             THEN base[Len(base)] ELSE ""

\* mimeTypes[ext] with no default: the header's value is undefined
contentTypeNoDefault(ext) ==
    IF ext \in DOMAIN mimeTypes THEN mimeTypes[ext] ELSE "undefined"

\* mimeTypes[ext] || 'application/octet-stream'
contentType(ext) ==
    IF ext \in DOMAIN mimeTypes THEN mimeTypes[ext] ELSE "application/octet-stream"

\* serveStaticFile (lines 25-36) on a disk; the response records the calls of
\* writeHead and of end, and the paths given to fs.readFile
serveStaticFile(filePath, disk) ==
    IF filePath \in disk
    THEN [writeHead |-> << <<200, contentType(extname(filePath))>> >>,
          end       |-> << <<"data", filePath>> >>,
          readFile  |-> <<filePath>>]
    ELSE [writeHead |-> << <<404, "">> >>,
          end       |-> << <<"Not found">> >>,
          readFile  |-> <<filePath>>]

\* the handler without lines 44-46
defaultPathnameNone(pathname) == pathname

\* lines 44-46: "/" is served as "/index.html"
defaultPathname(pathname) ==
    IF pathname = <<>> THEN << <<"index", ".html">> >> ELSE pathname

\* the handler of createRequestHandler (lines 39-61) for a pathname
requestHandler(pathname, disk) ==
    LET requestedPath == publicDir \o defaultPathname(pathname)
        resolvedPath  == normalize(requestedPath)
    IN  IF ~startsWith(pathString(resolvedPath), pathString(normalize(publicDir)))
        THEN [writeHead |-> << <<403, "">> >>,
              end       |-> << <<"Forbidden">> >>,
              readFile  |-> <<>>]
        ELSE serveStaticFile(resolvedPath, disk)

\* an HTTP request is handled
CallRequestHandler ==
    /\ call = NoCall
    /\ \E pathname \in Pathnames, disk \in Disks :
         call' = [fn  |-> "requestHandler",
                  arg |-> [pathname |-> pathname, disk |-> disk],
                  ret |-> requestHandler(pathname, disk)]
    /\ UNCHANGED <<currentGenerationAbortController, retryTimeoutId,
                   nextScheduleTimeoutId, timers, timerSeq, runs, files,
                   index, timerConfig>>

\* serveStaticFile(filePath, res) is called with a file of each extension,
\* readable or not
CallServeStaticFile ==
    /\ call = NoCall
    /\ \E ext \in ExtTokens \cup {""}, readable \in BOOLEAN :
         LET filePath == publicDir \o
                           << IF ext = "" THEN <<"file">> ELSE <<"file", ext>> >>
             disk == IF readable THEN {filePath} ELSE {}
         IN  call' = [fn  |-> "serveStaticFile",
                      arg |-> [filePath |-> filePath, disk |-> disk],
                      ret |-> serveStaticFile(filePath, disk)]
    /\ UNCHANGED <<currentGenerationAbortController, retryTimeoutId,
                   nextScheduleTimeoutId, timers, timerSeq, runs, files,
                   index, timerConfig>>

NextCalls ==
    \/ CallGetNext1AM
    \/ CallGenerateSection
    \/ CallCallOllama
    \/ CallRequestHandler
    \/ CallServeStaticFile

SpecCalls == Init /\ [][NextCalls]_vars

\* C15: getNext1AM returns today's 01:00 when called before 01:00 and
\* tomorrow's 01:00 otherwise, 01:00 itself included; the result is the first
\* 01:00 strictly after the call, and from 14:30 it is the next day's.
C15_Next1AM ==
    call.fn = "getNext1AM" =>
        LET now   == call.arg
            ret   == call.ret
            today == (now \div DAY_MS) * DAY_MS
        IN  /\ now <  today + HOUR_MS => ret = today + HOUR_MS
            /\ now >= today + HOUR_MS => ret = today + DAY_MS + HOUR_MS
            /\ ret > now
            /\ ret - now <= DAY_MS
            /\ ret % DAY_MS = HOUR_MS
            /\ now - today = 14 * HOUR_MS + HOUR_MS \div 2 =>
                   ret - now = 10 * HOUR_MS + HOUR_MS \div 2

\* getNext1AM has been called at 01:00:00.000 exactly
C15_Witness ==
    /\ call.fn = "getNext1AM"
    /\ call.arg % DAY_MS = HOUR_MS
    /\ call.ret = call.arg + DAY_MS

C20_SystemPrompt ==
    call.fn = "generateSection" =>
        LET G    == call.arg.configData
            S    == call.arg.section.systemPrompt
            sent == call.ret.system
        IN  IF G.hasSystemPrompt /\ G.systemPrompt # <<>>
            THEN /\ Len(sent) = Len(G.systemPrompt) + 1 + Len(S)
                 /\ SubSeq(sent, 1, Len(G.systemPrompt)) = G.systemPrompt
                 /\ sent[Len(G.systemPrompt) + 1] = " "
                 /\ SubSeq(sent, Len(G.systemPrompt) + 2, Len(sent)) = S
            ELSE sent = S

\* generateSection has been called with an empty global prompt, and with a
\* global prompt
C20_Witness ==
    /\ call.fn = "generateSection"
    /\ call.arg.configData.hasSystemPrompt
    /\ call.arg.configData.systemPrompt = <<>>
    /\ call.arg.section.systemPrompt = <<"a", "b">>
    /\ call.ret.system = <<"a", "b">>

-----------------------------------------------------------------------------
(* The fixed-interval scheduler: startTimer of the version that reads
   config.timerConfig.  Its callOllama catches every error and returns a
   placeholder text, its generateAllSections takes no signal, and a batch
   that throws is logged by the .catch of its caller. *)

\* the values of config.timerConfig.intervalMinutes
IntervalMinutes == {1, 5, 60}

\* intervalMs with the factor 60 left out
intervalMsSeconds(cfg) == cfg.intervalMinutes * 1000

\* const intervalMs = config.timerConfig.intervalMinutes * 60 * 1000
intervalMs(cfg) == cfg.intervalMinutes * 60 * 1000

\* url: `/sections/${result.id}/${filename}`
urlInterval(id, dateFolder) == <<"", "sections", id, <<dateFolder, "html">>>>

\* a call of generateAllSections(), made by the startup branch or by a tick
NewBatch(by) ==
    [phase      |-> "fetch",
     by         |-> by,
     req        |-> [i \in 1..NumSections |-> "pending"],
     dateFolder |-> "",
     newsItems  |-> <<>>]

\* generateAllSections() has settled: its locals are dropped
BatchEnded(run, outcome) ==
    [phase      |-> outcome,
     by         |-> run.by,
     req        |-> [i \in 1..NumSections |-> "settled"],
     dateFolder |-> "",
     newsItems  |-> <<>>]

\* the startup branch of startTimer taken whatever runOnStartup says
StartupBatchAlways(cfg) == <<NewBatch("startup")>>

\* if (config.timerConfig.runOnStartup) generateAllSections()
StartupBatch(cfg) == IF cfg.runOnStartup THEN <<NewBatch("startup")>> ELSE <<>>

\* the tick callback with a guard that skips the tick
OnTickSkips(rs) == rs

\* the callback of setInterval: generateAllSections() is called
OnTick(rs) == Append(rs, NewBatch("tick"))

\* startTimer() with config.timerConfig read from the configuration file
InitInterval ==
    /\ \E m \in IntervalMinutes, b \in BOOLEAN :
         timerConfig = [intervalMinutes |-> m, runOnStartup |-> b]
    /\ timers = {[id |-> 1, kind |-> "interval", ms |-> intervalMs(timerConfig),
                  ticks |-> 0]}
    /\ timerSeq = 1
    /\ runs = StartupBatch(timerConfig)
    /\ currentGenerationAbortController = 0
    /\ retryTimeoutId = 0
    /\ nextScheduleTimeoutId = 0
    /\ files = {}
    /\ index = <<>>
    /\ call = NoCall

\* the interval elapses: the timer stays registered and its callback runs
IntervalTick ==
    /\ \E t \in timers :
        /\ t.kind = "interval"
        /\ Len(runs) < MaxRuns
        /\ timers' = (timers \ {t}) \cup {[t EXCEPT !.ticks = @ + 1]}
        /\ runs' = OnTick(runs)
    /\ UNCHANGED <<currentGenerationAbortController, retryTimeoutId,
                   nextScheduleTimeoutId, timerSeq, files, index,
                   timerConfig, call>>

\* the minute the batches format as dateFolder: the batches of this scheduler
\* are taken to reach their save loop within one minute of each other
BatchStamps == {"2024-01-15_01-00"}

\* Promise.all over calls that never reject: resolved when none is pending
AllReturned(req) == \A j \in 1..NumSections : req[j] # "pending"

\* callOllama of section i of batch r returns the given content; the last
\* one to return resolves Promise.all
BatchRequestSettles(r, i, content, stamp) ==
    /\ runs[r].phase = "fetch"
    /\ runs[r].req[i] = "pending"
    /\ LET req1 == [runs[r].req EXCEPT ![i] = content]
       IN  runs' = [runs EXCEPT
                ![r].req = req1,
                ![r].phase = IF AllReturned(req1) THEN "save" ELSE @,
                ![r].dateFolder = IF AllReturned(req1) THEN stamp ELSE @]
    /\ UNCHANGED <<currentGenerationAbortController, retryTimeoutId,
                   nextScheduleTimeoutId, timers, timerSeq, files, index,
                   timerConfig, call>>

\* the request succeeds: callOllama returns data.response
BatchRequestReturns ==
    \E r \in DOMAIN runs, i \in 1..NumSections, stamp \in BatchStamps :
        BatchRequestSettles(r, i, "ok", stamp)

\* the request fails (no connection, or !response.ok): the catch block of
\* callOllama returns `Error generating content: ${error.message}`
BatchRequestCaught ==
    \E r \in DOMAIN runs, i \in 1..NumSections, stamp \in BatchStamps :
        BatchRequestSettles(r, i, "placeholder", stamp)

\* one iteration of the save loop of batch r
BatchArticleSaved ==
    /\ \E r \in DOMAIN runs :
        /\ runs[r].phase = "save"
        /\ LET k      == Len(runs[r].newsItems) + 1
               id     == sections[k].id
               folder == runs[r].dateFolder
           IN  /\ files' = files \cup {filepath(id, folder)}
               /\ runs' = [runs EXCEPT
                    ![r].newsItems = Append(@, [id  |-> id,
                                                url |-> urlInterval(id, folder)]),
                    ![r].phase = IF k = NumSections THEN "index" ELSE "save"]
    /\ UNCHANGED <<currentGenerationAbortController, retryTimeoutId,
                   nextScheduleTimeoutId, timers, timerSeq, index,
                   timerConfig, call>>

\* mkdir or writeFile throws in batch r: the caller's .catch logs the error
BatchWriteFails ==
    /\ \E r \in DOMAIN runs :
        /\ runs[r].phase \in {"save", "index"}
        /\ runs' = [runs EXCEPT ![r] = BatchEnded(@, "failed")]
    /\ UNCHANGED <<currentGenerationAbortController, retryTimeoutId,
                   nextScheduleTimeoutId, timers, timerSeq, files, index,
                   timerConfig, call>>

\* news.json is written and generateAllSections() of batch r resolves
BatchIndexWritten ==
    /\ \E r \in DOMAIN runs :
        /\ runs[r].phase = "index"
        /\ index' = WriteIndex(index, runs[r].newsItems)
        /\ runs' = [runs EXCEPT ![r] = BatchEnded(@, "succeeded")]
    /\ UNCHANGED <<currentGenerationAbortController, retryTimeoutId,
                   nextScheduleTimeoutId, timers, timerSeq, files,
                   timerConfig, call>>

NextInterval ==
    \/ IntervalTick
    \/ BatchRequestReturns
    \/ BatchRequestCaught
    \/ BatchArticleSaved
    \/ BatchWriteFails
    \/ BatchIndexWritten

SpecInterval == InitInterval /\ [][NextInterval]_vars

\* the batches started by the startup branch, and by ticks
StartupBatches == {r \in DOMAIN runs : runs[r].by = "startup"}
TickBatches == {r \in DOMAIN runs : runs[r].by = "tick"}

\* the number of ticks of the interval so far
Ticks == CHOOSE n \in 0..MaxRuns : \A t \in timers : t.ticks = n

\* C17: startTimer registers one repeating interval of intervalMinutes
\* minutes in ms (300000 for 5), which stays registered, and every tick of it
\* starts one batch.
C17_OneIntervalEveryTick ==
    /\ [](/\ Cardinality(timers) = 1
          /\ \A t \in timers :
                /\ t.kind = "interval"
                /\ t.ms = timerConfig.intervalMinutes * 60000
                /\ timerConfig.intervalMinutes = 5 => t.ms = 300000
          /\ Cardinality(TickBatches) = Ticks)
    /\ [][Ticks' = Ticks + 1 =>
             /\ Len(runs') = Len(runs) + 1
             /\ runs'[Len(runs')].phase = "fetch"
             /\ runs'[Len(runs')].by = "tick"]_vars

\* with intervalMinutes = 5 the interval has ticked twice
C17_Witness ==
    /\ timerConfig.intervalMinutes = 5
    /\ Ticks = 2
    /\ Cardinality(TickBatches) = 2

\* C18: with runOnStartup exactly one batch is started by startTimer itself
\* and it exists before the first tick; without it no batch exists before
\* the first tick.
C18_RunOnStartup ==
    /\ Cardinality(StartupBatches) = (IF timerConfig.runOnStartup THEN 1 ELSE 0)
    /\ Ticks = 0 => Len(runs) = (IF timerConfig.runOnStartup THEN 1 ELSE 0)
    /\ timerConfig.runOnStartup => Len(runs) >= 1 /\ runs[1].by = "startup"

\* the startup batch has completed before the first tick
C18_Witness ==
    /\ timerConfig.runOnStartup
    /\ Ticks = 0
    /\ Len(runs) = 1
    /\ runs[1].phase = "succeeded"

\* C19: no two batches of the fixed-interval scheduler are running at the
\* same time.
C19_IntervalNoOverlap == Cardinality(Running) <= 1

-----------------------------------------------------------------------------
(* C21-C25: the generation client and the static server, called alone *)

\* C21: callOllama calls fetch once whatever the response; with a status in
\* 200..299 and a JSON body it returns the body's response text, and with
\* any other status it throws 'Ollama API error: <status> <statusText>'.
C21_OneRequestNoRetry ==
    call.fn = "callOllama" =>
        LET response == call.arg[1]
            ret      == call.ret
        IN  /\ ret.fetches = 1
            /\ (response.kind = "response" /\ response.status \in 200..299
                    /\ response.body # "not JSON") =>
                  (ret.outcome = "returns" /\ ret.value = response.body)
            /\ (response.kind = "response" /\ response.status \notin 200..299) =>
                  /\ ret.outcome = "throws"
                  /\ ret.error = <<"Ollama API error: ", response.status, " ",
                                   response.statusText>>
            /\ response.kind = "reject" => ret.outcome = "throws"

\* callOllama has thrown on a 500 although a second request would have
\* succeeded
C21_Witness ==
    /\ call.fn = "callOllama"
    /\ call.arg[1].kind = "response" /\ call.arg[1].status = 500
    /\ call.arg[2].kind = "response" /\ call.arg[2].status = 200
    /\ call.ret.outcome = "throws"
    /\ call.ret.error[2] = 500
    /\ call.ret.error[4] = "Internal Server Error"

\* C22: no batch is in its writing phase with a section whose generation
\* failed: the failure has ended the batch, and no placeholder stands in for
\* the section's content.
C22_FailurePropagates ==
    \A r \in DOMAIN runs :
        runs[r].phase \in {"save", "index"} =>
            \A i \in 1..NumSections : runs[r].req[i] = "ok"

\* the path lies in the directory root or below it
Within(path, root) ==
    Len(path) >= Len(root) /\ SubSeq(path, 1, Len(root)) = root

\* C23: a request whose resolved path is not in the public directory is
\* answered 403 Forbidden without a call of fs.readFile, and no file outside
\* the public directory is read or served.
C23_OutsideRootForbidden ==
    call.fn = "requestHandler" =>
        LET resolved == normalize(publicDir \o call.arg.pathname)
        IN  /\ ~Within(resolved, publicDir) =>
                  /\ call.ret.writeHead = << <<403, "">> >>
                  /\ call.ret.end = << <<"Forbidden">> >>
                  /\ call.ret.readFile = <<>>
            /\ \A k \in DOMAIN call.ret.readFile :
                  Within(call.ret.readFile[k], publicDir)

\* C24: a request for / gets the response of a request for /index.html on
\* the same disk: 200, text/html and the file's data if it can be read, else
\* 404.
C24_RootIsIndex ==
    (call.fn = "requestHandler" /\ call.arg.pathname = <<>>) =>
        LET indexHtml == publicDir \o << <<"index", ".html">> >>
        IN  /\ call.ret = requestHandler(<< <<"index", ".html">> >>, call.arg.disk)
            /\ call.ret.readFile = <<indexHtml>>
            /\ indexHtml \in call.arg.disk =>
                  /\ call.ret.writeHead = << <<200, "text/html">> >>
                  /\ call.ret.end = << <<"data", indexHtml>> >>
            /\ indexHtml \notin call.arg.disk =>
                  call.ret.writeHead = << <<404, "">> >>

\* / has been requested with index.html in the public directory
C24_Witness ==
    /\ call.fn = "requestHandler"
    /\ call.arg.pathname = <<>>
    /\ call.ret.writeHead[1][1] = 200

\* the Content-Type of the extension table
TableType(ext) ==
    CASE ext = ".html" -> "text/html"
      [] ext = ".js"   -> "text/javascript"
      [] ext = ".css"  -> "text/css"
      [] ext = ".json" -> "application/json"
      [] ext = ".png"  -> "image/png"
      [] ext = ".jpg"  -> "image/jpg"
      [] ext = ".gif"  -> "image/gif"
      [] ext = ".svg"  -> "image/svg+xml"
      [] ext = ".ico"  -> "image/x-icon"
      [] OTHER         -> "application/octet-stream"

\* C25: every response has one writeHead and one end; a file that cannot be
\* read is answered 404 'Not found', a file that can be read 200 with the
\* table's Content-Type for its extension, application/octet-stream if the
\* table has none.
C25_OneStatusOneBody ==
    call.fn \in {"requestHandler", "serveStaticFile"} =>
        /\ Len(call.ret.writeHead) = 1
        /\ Len(call.ret.end) = 1
        /\ \A k \in DOMAIN call.ret.readFile :
              LET filePath == call.ret.readFile[k]
                  base     == filePath[Len(filePath)]
                  ext      == IF Len(base) > 1 THEN base[Len(base)] ELSE ""
              IN  IF filePath \in call.arg.disk
                  THEN /\ call.ret.writeHead = << <<200, TableType(ext)>> >>
                       /\ call.ret.end = << <<"data", filePath>> >>
                  ELSE /\ call.ret.writeHead = << <<404, "">> >>
                       /\ call.ret.end = << <<"Not found">> >>

\* a readable file with an extension the table does not have has been served
C25_Witness ==
    /\ call.fn = "serveStaticFile"
    /\ call.arg.filePath[3] = <<"file", ".unknown">>
    /\ call.ret.writeHead = << <<200, "application/octet-stream">> >>

-----------------------------------------------------------------------------
(* C26-C30: order, cancellation and retry in the daily scheduler *)

\* C26: the k-th article file a run writes and the k-th entry of the index
\* of a completed batch belong to the k-th configured section, whichever
\* request resolved last.
C26_ConfiguredOrder ==
    /\ [][\A r \in DOMAIN runs :
             runs'[r].artWrites = runs[r].artWrites + 1 =>
                 LET k == runs[r].artWrites + 1
                 IN  /\ files' = files \cup
                            {filepath(sections[k].id, runs[r].dateFolder)}
                     /\ Len(runs'[r].newsItems) = k
                     /\ runs'[r].newsItems[k].id = sections[k].id]_vars
    /\ [][\A r \in DOMAIN runs :
             EndsNow(r, "succeeded") =>
                 \A k \in 1..NumSections :
                     /\ index'[k].id = sections[k].id
                     /\ index'[k].url = url(sections[k].id, runs[r].dateFolder)]_vars

\* the request of the first section resolved last, and the articles are
\* written
C26_Witness ==
    \E r \in DOMAIN runs :
        /\ runs[r].phase = "index"
        /\ runs[r].last = 1
        /\ runs[r].newsItems[1].id = sections[1].id
        /\ runs[r].newsItems[NumSections].id = sections[NumSections].id

\* C27: the step that aborts a run leaves none of its requests outstanding,
\* and an aborted run never has an outstanding request afterwards.
C27_AbortReachesAllRequests ==
    /\ [][\A r \in DOMAIN runs :
             (~runs[r].aborted /\ runs'[r].aborted) =>
                 \A i \in 1..NumSections :
                     /\ runs'[r].req[i] # "pending"
                     /\ runs[r].req[i] = "pending" => runs'[r].req[i] # "ok"]_vars
    /\ [](\A r \in DOMAIN runs :
             runs[r].aborted =>
                 \A i \in 1..NumSections : runs[r].req[i] # "pending")

\* the first run has been cancelled during its fetch phase
C27_Witness ==
    /\ Len(runs) = 2
    /\ runs[1].phase = "cancelled"
    /\ runs[1].aborted
    /\ runs[1].artWrites = 0
    /\ InFlight(runs[2])

\* C28: a run that has ended has no request outstanding.
C28_NoRequestOutlivesBatch ==
    \A r \in DOMAIN runs :
        ~InFlight(runs[r]) =>
            \A i \in 1..NumSections : runs[r].req[i] # "pending"

\* the r-th run exists and is in one of the phases
PhaseIn(r, phases) == IF Len(runs) >= r THEN runs[r].phase \in phases ELSE FALSE

\* C29: with timers that fire and requests and writes that settle, every run
\* ends, a run that failed is followed by the start of another run (as long
\* as the model starts runs), and after a run that succeeded the next-day
\* timer is armed until the next run starts.
C29_RetryThenResume ==
    /\ \A r \in 1..MaxRuns : PhaseIn(r, {"fetch", "save", "index"}) ~>
                                PhaseIn(r, {"succeeded", "failed", "cancelled"})
    /\ \A r \in 1..(MaxRuns - 1) : PhaseIn(r, {"failed"}) ~> (Len(runs) > r)
    /\ [](\A r \in DOMAIN runs :
             (runs[r].phase = "succeeded" /\ Len(runs) = r) =>
                 (Cardinality(NextTimers) = 1 /\ RetryTimers = {}))

\* the first run failed, the retry started the second, which succeeded and
\* armed the next-day timer
C29_Witness ==
    /\ Len(runs) = 2
    /\ runs[1].phase = "failed"
    /\ runs[2].phase = "succeeded"
    /\ NextTimers # {}

\* the runs from r on are a failure streak: they failed, but for the last
\* which may be in flight
FailureStreakFrom(r) ==
    /\ runs[r].phase = "failed"
    /\ \A q \in DOMAIN runs :
          q > r => (runs[q].phase = "failed" \/ (q = Len(runs) /\ InFlight(runs[q])))

\* C30: whatever the number of failures in a row, after the last of them
\* exactly one retry timer of 600000 ms is armed, and during the streak no
\* next-day timer is.
C30_FixedRetryNoBackoff ==
    \A r \in DOMAIN runs :
        FailureStreakFrom(r) =>
            /\ NextTimers = {}
            /\ nextScheduleTimeoutId = 0
            /\ \A t \in timers : t.kind = "retry" /\ t.ms = 600000
            /\ runs[Len(runs)].phase = "failed" =>
                  /\ Cardinality(timers) = 1
                  /\ \A t \in timers : t.id = retryTimeoutId

\* every run has failed, as many as the model starts
C30_Witness ==
    /\ Len(runs) = MaxRuns
    /\ \A r \in DOMAIN runs : runs[r].phase = "failed"
    /\ Cardinality(RetryTimers) = 1

-----------------------------------------------------------------------------
(* C31-C34 *)

\* run r leaves its save loop in this step without reaching the index write
SaveLoopFailsNow(r) ==
    /\ runs[r].phase = "save"
    /\ ~InFlight(runs'[r])

\* C31: when a write of the save loop fails, the run has written and writes
\* no news.json, the articles it wrote before stay on disk, and unless it
\* had been superseded it ends as a failure with the retry timer armed.
C31_SaveFailureKeepsArticles ==
    [][\A r \in DOMAIN runs :
          SaveLoopFailsNow(r) =>
              /\ index' = index
              /\ runs'[r].idxWrites = 0
              /\ runs'[r].artWrites = Len(runs[r].newsItems)
              /\ files' = files
              /\ \A k \in DOMAIN runs[r].newsItems :
                    filepath(sections[k].id, runs[r].dateFolder) \in files'
              /\ ~runs[r].aborted =>
                    /\ runs'[r].phase = "failed"
                    /\ Cardinality(RetryTimers') = 1
                    /\ \A t \in RetryTimers' :
                          /\ t.ms = 10 * 60 * 1000
                          /\ t.id = retryTimeoutId'
                          /\ t \notin timers]_vars

\* the second write of the first run failed: its first article is on disk,
\* there is no index, and the retry is armed
C31_Witness ==
    /\ Len(runs) = 1
    /\ runs[1].phase = "failed"
    /\ runs[1].artWrites = 1
    /\ Cardinality(files) = 1
    /\ index = <<>>
    /\ RetryTimers # {}

\* the file under baseDir/../public that a url of the index names
FileOfUrl(u) == <<"public">> \o SubSeq(u, 2, Len(u))

\* C32: a run's dateFolder is set once, when Promise.all resolves, and does
\* not change while the run writes; every entry the run pushes, and every
\* entry of the index it writes, has the url ./sections/{id}/{dateFolder}.html
\* of a file the run has written under that dateFolder.
C32_OneFolderPerBatch ==
    /\ [][\A r \in DOMAIN runs :
             /\ (runs[r].phase = "fetch" /\ runs'[r].phase = "save") =>
                    runs'[r].dateFolder \in Stamps
             /\ (runs[r].phase \in {"save", "index"} /\ InFlight(runs'[r])) =>
                    runs'[r].dateFolder = runs[r].dateFolder
             /\ EndsNow(r, "succeeded") =>
                    /\ runs[r].artWrites = NumSections
                    /\ \A k \in 1..NumSections :
                          /\ index'[k].url = <<".", "sections", sections[k].id,
                                               <<runs[r].dateFolder, "html">>>>
                          /\ FileOfUrl(index'[k].url) \in files']_vars
    /\ [](\A r \in DOMAIN runs :
             runs[r].phase \in {"save", "index"} =>
                 \A k \in DOMAIN runs[r].newsItems :
                     /\ runs[r].newsItems[k].url =
                            <<".", "sections", sections[k].id,
                              <<runs[r].dateFolder, "html">>>>
                     /\ FileOfUrl(runs[r].newsItems[k].url) \in files)
    /\ [](\A k \in DOMAIN index : FileOfUrl(index[k].url) \in files)

\* a batch has completed: news.json names its NumSections files
C32_Witness ==
    /\ Len(index) = NumSections
    /\ Cardinality(files) = NumSections
    /\ \E r \in DOMAIN runs : runs[r].phase = "succeeded"

\* how many of the three hold: a run is in flight, a retry timer is armed, a
\* next-day timer is armed
Busy ==
    (IF Running # {} THEN 1 ELSE 0) + (IF RetryTimers # {} THEN 1 ELSE 0)
        + (IF NextTimers # {} THEN 1 ELSE 0)

\* C33: with runs started by the scheduler's timers only, exactly one of
\* "a run is in flight", "the retry timer is armed", "the next-day timer is
\* armed" holds; no timer is armed during a run, every run is entered with
\* the controller null, and no run is ever aborted.
C33_RunOrOneTimer ==
    /\ Busy = 1
    /\ Running # {} => (timers = {} /\ retryTimeoutId = 0 /\ nextScheduleTimeoutId = 0)
    /\ \A r \in DOMAIN runs : runs[r].prev = 0 /\ ~runs[r].aborted

\* the retry of a failed run is in flight and no timer is armed
C33_Witness ==
    /\ Len(runs) = 2
    /\ runs[1].phase = "failed"
    /\ InFlight(runs[2])
    /\ timers = {}

\* C34: the step in which a superseded run ends, without a new run being
\* started in it, changes neither the controller variable nor the timers
\* nor their handles.
C34_SupersededRunIsInert ==
    [][\A r \in DOMAIN runs :
          (runs[r].aborted /\ InFlight(runs[r]) /\ ~InFlight(runs'[r])
              /\ Len(runs') = Len(runs)) =>
              UNCHANGED <<currentGenerationAbortController, retryTimeoutId,
                          nextScheduleTimeoutId, timers>>]_vars

=============================================================================
